---- MODULE Spec2Model ----
(***************************************************************************)
(* Model of the reconciliation engine runReconciliation and its helper     *)
(* mapRuleToSAPCategory.                                                   *)
(*                                                                         *)
(* Numbers.  The engine computes with IEEE doubles; the model computes     *)
(* with exact integers and exact fractions.  Ledger amounts are whole      *)
(* ledger units and every money value of the model is counted in 1/100 of  *)
(* a ledger unit, so that capBase * (capPercent / 100) is an integer.  A   *)
(* quotient (a ratio, a headroom) is a record [num, den] with den > 0.     *)
(* A threshold percentage is counted in 1/100 (0.40 is 40).                *)
(*                                                                         *)
(* Strings.  A free text (rule item, cap text, exclusion, covenant name,   *)
(* account name) is one of a small set of texts; `includes` and the cap    *)
(* regular expression are tables over these texts.                         *)
(*                                                                         *)
(* Optional values.  An absent (undefined / null) number is <<>>, a        *)
(* present one is <<n>>; an absent text is "".                             *)
(***************************************************************************)
EXTENDS Integers, Sequences, FiniteSets, TLC

VARIABLES sapData, rules, pc, ruleIdx, locals, result, prevResult, displayed

vars == <<sapData, rules, pc, ruleIdx, locals, result, prevResult, displayed>>

(***************************************************************************)
(* Bounds of the model.                                                    *)
(***************************************************************************)
MaxEntries == 3
MaxRules == 2
MaxCovenants == 2

Hundred == 100

(***************************************************************************)
(* Generic helpers.                                                        *)
(***************************************************************************)
Unset == <<>>
Some(v) == <<v>>

\* Mutant: the amount is taken with its sign.
Signed(x) == x

\* Math.abs
Abs(x) == IF x < 0 THEN -x ELSE x

\* x || d of JavaScript for an optional number: absent and 0 give d.
OrDefault(opt, d) == IF opt = Unset THEN d ELSE IF opt[1] = 0 THEN d ELSE opt[1]

RECURSIVE SumAmount(_)
SumAmount(s) == IF s = <<>> THEN 0 ELSE s[1].amount + SumAmount(Tail(s))

RECURSIVE SumAbsAmount(_)
SumAbsAmount(s) == IF s = <<>> THEN 0 ELSE Abs(s[1].amount) + SumAbsAmount(Tail(s))

FilterCategory(data, c) == SelectSeq(data, LAMBDA e : e.category = c)

Ids(s) == {s[k].id : k \in 1..Len(s)}

\* a / b when the guard b # 0 holds, the given zero otherwise.
Quotient(a, b) ==
  IF b = 0 THEN [num |-> 0, den |-> 1]
  ELSE IF b < 0 THEN [num |-> -a, den |-> -b]
  ELSE [num |-> a, den |-> b]

(***************************************************************************)
(* Texts and their substring tables.                                       *)
(***************************************************************************)
KeywordsOf(text) ==
  CASE text = "Depreciation and Amortization" -> {"depreciation", "amortization"}
    [] text = "Transaction Costs" -> {"transaction"}
    [] text = "Restructuring Costs" -> {"restructuring"}
    [] text = "Unrealized FX losses" -> {"fx"}
    [] text = "Exceptional legal costs" -> {"legal", "exceptional"}
    [] text = "Pension items" -> {}
    [] text = "Unrealized exchange gains" -> {"exchange"}
    [] text = "Leverage Ratio" -> {"leverage"}
    [] text = "Consolidated Net LEVERAGE" -> {"leverage"}
    [] text = "INTEREST Cover Ratio" -> {"interest"}
    [] text = "Interest Cover" -> {"interest"}
    [] text = "Senior Secured Notes" -> {}
    [] text = "Senior Secured Notes 2028 (Tranche 1)" -> {}
    [] text = "Facility B1 Drawing" -> {}
    [] text = "Senior Secured Notes 2028 (Tranche 2)" -> {}
    [] text = "Revolving Credit Facility (RCF) - Drawn" -> {"rcf", "revolving"}
    [] OTHER -> {}

\* text.toLowerCase().includes(kw)
Includes(text, kw) == kw \in KeywordsOf(text)

\* cap.includes('%')
CapHasPercentSign(cap) == cap \in {"50%", "15%", "15% of EBITDA", "% of EBITDA"}

\* cap.toLowerCase().includes('cap')
CapHasCapWord(cap) == cap \in {"Subject to cap"}

\* cap.match(/(\d+)%/) and parseInt of its group: absent when there is no match.
CapPercentMatch(cap) ==
  CASE cap = "50%" -> Some(50)
    [] cap = "15%" -> Some(15)
    [] cap = "15% of EBITDA" -> Some(15)
    [] OTHER -> Unset

DefaultCapPercent == 20
DefaultLeverageMax == 4
DefaultInterestMin == 0
DefaultThreshold == 40

(***************************************************************************)
(* mapRuleToSAPCategory                                                    *)
(***************************************************************************)
mapRuleToSAPCategory(ruleName) ==
  IF Includes(ruleName, "depreciation") \/ Includes(ruleName, "amortization")
     \/ Includes(ruleName, "impairment")
    THEN {"D&A"}
  ELSE IF Includes(ruleName, "transaction") \/ Includes(ruleName, "legal")
     \/ Includes(ruleName, "professional") \/ Includes(ruleName, "acquisition")
    THEN {"Transaction"}
  ELSE IF Includes(ruleName, "restructuring") \/ Includes(ruleName, "redundancy")
     \/ Includes(ruleName, "reorganization") \/ Includes(ruleName, "exceptional")
    THEN {"Restructuring"}
  ELSE IF Includes(ruleName, "fx") \/ Includes(ruleName, "exchange")
    THEN {"FX"}
  ELSE {}

(***************************************************************************)
(* runReconciliation, section 1.1: operating profit (the starting point).  *)
(***************************************************************************)
\* Mutant: the consumed-id set outlives the invocation.
KeptUsedSapIds == locals.usedSapIds

\* const usedSapIds = new Set<string>()
NewUsedSapIds == {}

StartPointLabel(rls) ==
  IF rls.ebitdaRules.startingPoint = "" THEN "Operating Profit"
  ELSE rls.ebitdaRules.startingPoint

\* Mutant: the costs are added with their sign.
OperatingProfitSignedCosts(data) ==
  SumAmount(FilterCategory(data, "Revenue")) + SumAmount(FilterCategory(data, "OpEx"))

OperatingProfit(data) ==
  SumAmount(FilterCategory(data, "Revenue")) - SumAbsAmount(FilterCategory(data, "OpEx"))

OperatingProfitStep(data, rls) ==
  LET revenueEntries == FilterCategory(data, "Revenue")
      opexEntries == FilterCategory(data, "OpEx")
      operatingProfit == OperatingProfit(data)
  IN  [reconciliation |->
         << [lmaItem |-> <<"A. ", StartPointLabel(rls)>>,
             sapSources |-> revenueEntries \o opexEntries,
             rawAmount |-> operatingProfit,
             isAddBack |-> FALSE,
             isDeduction |-> FALSE,
             cappedAmount |-> Unset,
             finalAmount |-> operatingProfit,
             adjustmentReason |-> Unset,
             section |-> "EBITDA"] >>,
       usedSapIds |-> NewUsedSapIds \cup Ids(revenueEntries) \cup Ids(opexEntries),
       operatingProfit |-> operatingProfit,
       runningEBITDA |-> operatingProfit,
       depreciationTotal |-> 0,
       restructuringTotal |-> 0,
       transactionTotal |-> 0,
       fxAdjustmentTotal |-> 0]

(***************************************************************************)
(* Section 1.2: one iteration of the permittedAddBacks loop.               *)
(***************************************************************************)
\* Mutant: the filter forgets the consumed ids.
MatchingEntriesIgnoringUsed(data, used, targetCategories) ==
  SelectSeq(data, LAMBDA e : e.category \in targetCategories)

\* sapData.filter(entry => targetCategories.includes(entry.category)
\*                          && !usedSapIds.has(entry.id))
MatchingEntries(data, used, targetCategories) ==
  SelectSeq(data, LAMBDA e : e.category \in targetCategories /\ e.id \notin used)

\* rule.cap && (rule.cap.includes('%') || rule.cap.toLowerCase().includes('cap'))
CapApplies(rule) ==
  rule.cap # "" /\ (CapHasPercentSign(rule.cap) \/ CapHasCapWord(rule.cap))

\* Mutant: a cap text without a percentage leaves the amount unlimited.
CapPercentUnlimited(rule) ==
  IF CapPercentMatch(rule.cap) # Unset THEN CapPercentMatch(rule.cap)[1]
  ELSE Hundred

CapPercent(rule) ==
  IF CapPercentMatch(rule.cap) # Unset THEN CapPercentMatch(rule.cap)[1]
  ELSE DefaultCapPercent

\* capBase * (capPercent / 100); capBase is a whole number of ledger units.
MaxAllowed(capBase, capPercent) == (capBase * capPercent) \div Hundred

\* Mutant: an amount equal to the cap counts as capped.
ExceedsOrEqual(rawAmount, maxAllowed) == rawAmount >= maxAllowed

Exceeds(rawAmount, maxAllowed) == rawAmount > maxAllowed

\* Mutant: the cap is measured on the running EBITDA, which holds the
\* earlier add-backs of every classification.
CapBaseOnRunningEBITDA(f, depreciationTotal) == f.runningEBITDA

\* Mutant: the cap base is taken before the rule's own D&A amount is added.
CapBaseBeforeRule(f, depreciationTotal) == f.operatingProfit + f.depreciationTotal

\* Mutant: every firing rule adds to the subtotal.
CategoryTotalUnconditional(total, targetCategories, category, rawAmount) ==
  total + rawAmount

\* if (targetCategories.includes('D&A')) depreciationTotal += rawAmount, and
\* the same for 'Transaction' and transactionTotal.
CategoryTotal(total, targetCategories, category, rawAmount) ==
  IF category \in targetCategories THEN total + rawAmount ELSE total

\* const capBase = operatingProfit + depreciationTotal
CapBase(f, depreciationTotal) == f.operatingProfit + depreciationTotal

\* Mutant: the bridge advances by the uncapped amount.
NextRunningEBITDAByRaw(runningEBITDA, rawAmount, finalAmount) ==
  runningEBITDA + rawAmount

\* runningEBITDA += finalAmount
NextRunningEBITDA(runningEBITDA, rawAmount, finalAmount) ==
  runningEBITDA + finalAmount

\* Mutant: a rule without matching entries emits its line all the same.
HasMatchesAlways(matchingEntries) == TRUE

\* if (matchingEntries.length > 0)
HasMatches(matchingEntries) == Len(matchingEntries) > 0

AddBackStep(data, f, rule) ==
  LET targetCategories == mapRuleToSAPCategory(rule.item)
      matchingEntries == MatchingEntries(data, f.usedSapIds, targetCategories)
      rawAmount == SumAbsAmount(matchingEntries)
      depreciationTotal ==
        CategoryTotal(f.depreciationTotal, targetCategories, "D&A", rawAmount)
      transactionTotal ==
        CategoryTotal(f.transactionTotal, targetCategories, "Transaction", rawAmount)
      capBase == CapBase(f, depreciationTotal)
      capPercent == CapPercent(rule)
      maxAllowed == MaxAllowed(capBase, capPercent)
      capped == CapApplies(rule) /\ Exceeds(rawAmount, maxAllowed)
      finalAmount == IF capped THEN maxAllowed ELSE rawAmount
      adjustmentReason ==
        IF ~CapApplies(rule) THEN <<rule.legalLogic>>
        ELSE IF capped THEN <<"Capped at ", capPercent, "% of Base">>
        ELSE <<"Permitted (Within Cap)">>
      restructuringTotal ==
        IF CapApplies(rule) \/ "Restructuring" \in targetCategories
        THEN f.restructuringTotal + finalAmount
        ELSE f.restructuringTotal
  IN  IF HasMatches(matchingEntries)
      THEN [f EXCEPT
             !.usedSapIds = @ \cup Ids(matchingEntries),
             !.depreciationTotal = depreciationTotal,
             !.transactionTotal = transactionTotal,
             !.restructuringTotal = restructuringTotal,
             !.reconciliation = Append(@,
                [lmaItem |-> <<"(+) ", rule.item>>,
                 sapSources |-> matchingEntries,
                 rawAmount |-> rawAmount,
                 isAddBack |-> TRUE,
                 isDeduction |-> FALSE,
                 cappedAmount |-> IF capped THEN Some(maxAllowed) ELSE Unset,
                 finalAmount |-> finalAmount,
                 adjustmentReason |-> Some(adjustmentReason),
                 section |-> "EBITDA"]),
             !.runningEBITDA = NextRunningEBITDA(@, rawAmount, finalAmount)]
      ELSE f

\* Mutant: the rules are taken last to first.
RuleOrderReversed(addBacks) == [k \in 1..Len(addBacks) |-> Len(addBacks) + 1 - k]

\* rules.ebitdaRules.permittedAddBacks.forEach: the rules in list order.
RuleOrder(addBacks) == [k \in 1..Len(addBacks) |-> k]

RECURSIVE AddBacksFrom(_, _, _, _)
AddBacksFrom(data, f, addBacks, k) ==
  IF k > Len(addBacks) THEN f
  ELSE AddBacksFrom(data, AddBackStep(data, f, addBacks[RuleOrder(addBacks)[k]]),
                    addBacks, k + 1)

(***************************************************************************)
(* Section 1.3: exclusions (the FX logic).                                 *)
(***************************************************************************)
\* Mutant: a net loss is deducted like a net gain.
IsGainOrLoss(netFX) == netFX # 0

\* if (netFX > 0)
IsGain(netFX) == netFX > 0

HasFXExclusion(rls) ==
  \E k \in 1..Len(rls.ebitdaRules.exclusions) :
     Includes(rls.ebitdaRules.exclusions[k], "fx")
     \/ Includes(rls.ebitdaRules.exclusions[k], "exchange")

ExclusionsStep(data, rls, f) ==
  LET fxEntries == MatchingEntries(data, f.usedSapIds, {"FX"})
      netFX == SumAmount(fxEntries)
  IN  IF HasFXExclusion(rls) /\ Len(fxEntries) > 0
      THEN IF IsGain(netFX)
           THEN [f EXCEPT
                  !.usedSapIds = @ \cup Ids(fxEntries),
                  !.fxAdjustmentTotal = netFX,
                  !.reconciliation = Append(@,
                     [lmaItem |-> <<"(-) Unrealized FX Gain">>,
                      sapSources |-> fxEntries,
                      rawAmount |-> netFX,
                      isAddBack |-> FALSE,
                      isDeduction |-> TRUE,
                      cappedAmount |-> Unset,
                      finalAmount |-> -netFX,
                      adjustmentReason |-> Some(<<"Excluded Gain">>),
                      section |-> "EBITDA"]),
                  !.runningEBITDA = @ - netFX]
           ELSE [f EXCEPT !.usedSapIds = @ \cup Ids(fxEntries)]
      ELSE f

(***************************************************************************)
(* Sections 2 and 3: net finance charges and net debt.                     *)
(***************************************************************************)
InterestExpense(data) == SumAbsAmount(FilterCategory(data, "Interest Expense"))
\* Mutant: the income is summed with its sign.
InterestIncomeSigned(data) == SumAmount(FilterCategory(data, "Interest Income"))

InterestIncome(data) == SumAbsAmount(FilterCategory(data, "Interest Income"))
NetFinanceCharges(data) == InterestExpense(data) - InterestIncome(data)

DebtTotal(data) ==
  SumAmount(FilterCategory(data, "Gross Debt")) + SumAmount(FilterCategory(data, "Leases"))
CashTotal(data) == SumAmount(FilterCategory(data, "Cash"))
NetDebt(data) == DebtTotal(data) - CashTotal(data)

PlainLine(item, sources, raw, deduction, sect) ==
  [lmaItem |-> <<item>>,
   sapSources |-> sources,
   rawAmount |-> raw,
   isAddBack |-> FALSE,
   isDeduction |-> deduction,
   cappedAmount |-> Unset,
   finalAmount |-> IF deduction THEN -raw ELSE raw,
   adjustmentReason |-> Unset,
   section |-> sect]

AggregatesStep(data, f) ==
  [f EXCEPT !.reconciliation = @ \o
     << PlainLine("B. Finance Costs", FilterCategory(data, "Interest Expense"),
                  InterestExpense(data), FALSE, "FINANCE_CHARGES"),
        PlainLine("(-) Finance Income", FilterCategory(data, "Interest Income"),
                  InterestIncome(data), TRUE, "FINANCE_CHARGES"),
        PlainLine("A. Gross Borrowings",
                  FilterCategory(data, "Gross Debt") \o FilterCategory(data, "Leases"),
                  DebtTotal(data), FALSE, "NET_DEBT"),
        PlainLine("(-) Cash & Cash Equivalents", FilterCategory(data, "Cash"),
                  CashTotal(data), TRUE, "NET_DEBT") >>]

(***************************************************************************)
(* Ratios, springing trigger, status and the returned object.              *)
(***************************************************************************)
\* financialCovenants.find(c => c.name && c.name.toLowerCase().includes(kw))
\* Mutant: the last covenant of the name is taken.
FindCovenantLast(rls, kw) ==
  LET hits == SelectSeq(rls.financialCovenants,
                        LAMBDA c : c.name # "" /\ Includes(c.name, kw))
  IN  IF hits = <<>> THEN Unset ELSE Some(hits[Len(hits)])

FindCovenant(rls, kw) ==
  LET hits == SelectSeq(rls.financialCovenants,
                        LAMBDA c : c.name # "" /\ Includes(c.name, kw))
  IN  IF hits = <<>> THEN Unset ELSE Some(hits[1])

LevMax(rls) ==
  LET levRule == FindCovenant(rls, "leverage")
  IN  IF levRule = Unset THEN DefaultLeverageMax
      ELSE OrDefault(levRule[1].maxLimit, DefaultLeverageMax)

IntMin(rls) ==
  LET intRule == FindCovenant(rls, "interest")
  IN  IF intRule = Unset THEN DefaultInterestMin
      ELSE OrDefault(intRule[1].minLimit, DefaultInterestMin)

\* Mutant: the division is not guarded against a zero EBITDA.
LeverageRatioUnguarded(netDebt, adjustedEBITDA) ==
  IF adjustedEBITDA < 0 THEN [num |-> -netDebt, den |-> -adjustedEBITDA]
  ELSE [num |-> netDebt, den |-> adjustedEBITDA]

\* Mutant: the ratio is taken on the magnitude of the EBITDA.
LeverageRatioOnMagnitude(netDebt, adjustedEBITDA) ==
  Quotient(netDebt, Abs(adjustedEBITDA))

\* Mutant: the division is not guarded against zero finance charges.
InterestCoverageRatioUnguarded(adjustedEBITDA, netFinanceCharges) ==
  IF netFinanceCharges < 0
  THEN [num |-> -adjustedEBITDA, den |-> -netFinanceCharges]
  ELSE [num |-> adjustedEBITDA, den |-> netFinanceCharges]

LeverageRatio(netDebt, adjustedEBITDA) == Quotient(netDebt, adjustedEBITDA)
InterestCoverageRatio(adjustedEBITDA, netFinanceCharges) ==
  Quotient(adjustedEBITDA, netFinanceCharges)

\* Mutant: the headroom is the ratio less the limit.
LeverageHeadroomReversed(levMax, leverageRatio) ==
  Quotient(leverageRatio.num - levMax * leverageRatio.den, leverageRatio.den)

\* leverageHeadroom: levMax - leverageRatio
LeverageHeadroom(levMax, leverageRatio) ==
  Quotient(levMax * leverageRatio.den - leverageRatio.num, leverageRatio.den)

\* interestHeadroom: interestCoverageRatio - intMin
InterestHeadroom(interestCoverageRatio, intMin) ==
  Quotient(interestCoverageRatio.num - intMin * interestCoverageRatio.den,
           interestCoverageRatio.den)

\* q > n / d and q < n / d for a quotient q and d > 0.
Above(q, n, d) == q.num * d > n * q.den
Below(q, n, d) == q.num * d < n * q.den

\* Mutant: any configured trigger is evaluated.
IsSpringingWhenConfigured(rls) == rls.covenantTrigger # Unset

IsSpringing(rls) ==
  rls.covenantTrigger # Unset /\ rls.covenantTrigger[1].isSpringing

TotalRcfCapacity(rls) == OrDefault(rls.covenantTrigger[1].totalRcfAmount, 0)

\* Mutant: every drawing of the facility counts.
RcfDrawdownTotal(data) ==
  SumAmount(SelectSeq(FilterCategory(data, "Gross Debt"),
                      LAMBDA e : Includes(e.accountName, "rcf")
                                 \/ Includes(e.accountName, "revolving")))

RcfDrawdown(data) ==
  LET rcf == SelectSeq(FilterCategory(data, "Gross Debt"),
                       LAMBDA e : Includes(e.accountName, "rcf")
                                  \/ Includes(e.accountName, "revolving"))
  IN  IF rcf = <<>> THEN 0 ELSE rcf[1].amount

Utilization(data, rls) ==
  IF TotalRcfCapacity(rls) > 0 THEN Quotient(RcfDrawdown(data), TotalRcfCapacity(rls))
  ELSE Quotient(0, 1)

Threshold(rls) == OrDefault(rls.covenantTrigger[1].thresholdPercentage, DefaultThreshold)

\* Mutant: utilization equal to the threshold activates the test.
TestConditionActiveInclusive(data, rls) ==
  IF IsSpringing(rls) THEN ~Below(Utilization(data, rls), Threshold(rls), Hundred)
  ELSE TRUE

TestConditionActive(data, rls) ==
  IF IsSpringing(rls) THEN Above(Utilization(data, rls), Threshold(rls), Hundred)
  ELSE TRUE

TriggerDetails(data, rls) ==
  IF IsSpringing(rls)
  THEN Some([metricName |->
               IF rls.covenantTrigger[1].triggerMetric = ""
               THEN "RCF Drawings / Total RCF Commitments"
               ELSE rls.covenantTrigger[1].triggerMetric,
             currentValue |-> Utilization(data, rls),
             threshold |-> Threshold(rls),
             capacity |-> TotalRcfCapacity(rls)])
  ELSE Unset

\* Mutant: the leverage check has no warning band.
LeverageCheckBreachOnly(leverageRatio, levMax) ==
  IF Above(leverageRatio, levMax, 1) THEN "Breach" ELSE "Healthy"

LeverageCheck(leverageRatio, levMax) ==
  IF Above(leverageRatio, levMax, 1) THEN "Breach"
  ELSE IF Above(leverageRatio, levMax * 9, 10) THEN "Warning"
  ELSE "Healthy"

\* Mutant: the interest check runs also after a leverage breach.
InterestCheckUnguarded(status, interestCoverageRatio, intMin) ==
  IF Below(interestCoverageRatio, intMin, 1) THEN "Breach"
  ELSE IF Below(interestCoverageRatio, intMin * 11, 10) THEN "Warning"
  ELSE status

\* Mutant: a passed interest check resets the status.
InterestCheckOverwriting(status, interestCoverageRatio, intMin) ==
  IF Below(interestCoverageRatio, intMin, 1) THEN "Breach"
  ELSE IF Below(interestCoverageRatio, intMin * 11, 10) THEN "Warning"
  ELSE "Healthy"

InterestCheck(status, interestCoverageRatio, intMin) ==
  IF status # "Breach"
  THEN IF Below(interestCoverageRatio, intMin, 1) THEN "Breach"
       ELSE IF Below(interestCoverageRatio, intMin * 11, 10) /\ status # "Warning"
            THEN "Warning"
            ELSE status
  ELSE status

Status(active, leverageRatio, levMax, interestCoverageRatio, intMin) ==
  IF ~active THEN "Skipped"
  ELSE InterestCheck(LeverageCheck(leverageRatio, levMax), interestCoverageRatio, intMin)

EvaluateStep(data, rls, f) ==
  LET adjustedEBITDA == f.runningEBITDA
      leverageRatio == LeverageRatio(NetDebt(data), adjustedEBITDA)
      interestCoverageRatio ==
        InterestCoverageRatio(adjustedEBITDA, NetFinanceCharges(data))
      levMax == LevMax(rls)
      intMin == IntMin(rls)
      testConditionActive == TestConditionActive(data, rls)
  IN  [reconciliation |-> f.reconciliation,
       health |->
         [adjustedEBITDA |-> adjustedEBITDA,
          netDebt |-> NetDebt(data),
          netFinanceCharges |-> NetFinanceCharges(data),
          grossDebt |-> DebtTotal(data),
          cashAtBank |-> CashTotal(data),
          operatingProfit |-> f.operatingProfit,
          depreciation |-> f.depreciationTotal,
          amortization |-> 0,
          restructuringCosts |-> f.restructuringTotal,
          transactionCosts |-> f.transactionTotal,
          unrealizedFX |-> f.fxAdjustmentTotal,
          interestExpense |-> InterestExpense(data)],
       headroom |->
         [leverageRatio |-> leverageRatio,
          leverageThreshold |-> levMax,
          interestCoverageRatio |-> interestCoverageRatio,
          interestThreshold |-> intMin,
          status |-> Status(testConditionActive, leverageRatio, levMax,
                            interestCoverageRatio, intMin),
          leverageHeadroom |-> LeverageHeadroom(levMax, leverageRatio),
          interestHeadroom |-> InterestHeadroom(interestCoverageRatio, intMin),
          testConditionActive |-> testConditionActive,
          triggerDetails |-> TriggerDetails(data, rls)]]

\* The whole function, as one value.
RunReconciliation(data, rls) ==
  EvaluateStep(data, rls,
    AggregatesStep(data,
      ExclusionsStep(data, rls,
        AddBacksFrom(data, OperatingProfitStep(data, rls),
                     rls.ebitdaRules.permittedAddBacks, 1))))

(***************************************************************************)
(* ReconciliationTable: the total row of one section, as DashboardView     *)
(* renders it.                                                             *)
(***************************************************************************)
\* The pieces of the line labels that hold the text '(-)'.
HasMinusMarker(text) ==
  text \in {"(-) Unrealized FX Gain", "(-) Finance Income", "(-) Cash & Cash Equivalents"}

\* row.lmaItem.includes('(-)')
IncludesMinusMarker(lmaItem) == \E k \in 1..Len(lmaItem) : HasMinusMarker(lmaItem[k])

\* data.reduce((acc, row) => ..., 0): the number handed to formatCurrency.
RECURSIVE TableTotalFrom(_, _, _)
TableTotalFrom(data, acc, k) ==
  IF k > Len(data) THEN acc
  ELSE TableTotalFrom(data,
         IF IncludesMinusMarker(data[k].lmaItem) THEN acc - Abs(data[k].finalAmount)
         ELSE acc + Abs(data[k].finalAmount),
         k + 1)

TableTotal(data) == TableTotalFrom(data, 0, 1)

\* reconciliation.filter(item => item.section === section)
SectionRows(reconciliation, sect) == SelectSeq(reconciliation, LAMBDA row : row.section = sect)

(***************************************************************************)
(* Inputs: ledgers and rule sets.                                          *)
(***************************************************************************)
\* An entry of a whole ledger units, before the ledger gives it its id.
EntryKind(cat, a, name) ==
  [category |-> cat, amount |-> a * Hundred, accountName |-> name]

\* A ledger: entry k of the list has the unique id k.
Ledger(kinds) ==
  [k \in 1..Len(kinds) |->
     [id |-> k, accountName |-> kinds[k].accountName,
      amount |-> kinds[k].amount, category |-> kinds[k].category]]

Ledgers(kindSet) ==
  {Ledger(s) : s \in UNION {[1..m -> kindSet] : m \in 0..MaxEntries}}

AddBackRule(item, cap) == [item |-> item, legalLogic |-> "Permitted add-back", cap |-> cap]

AddBackLists(ruleSet) == UNION {[1..m -> ruleSet] : m \in 0..MaxRules}

Covenant(name, maxLimit, minLimit) ==
  [name |-> name, maxLimit |-> maxLimit, minLimit |-> minLimit]

Trigger(springing, total, threshold) ==
  [isSpringing |-> springing, triggerMetric |-> "",
   thresholdPercentage |-> threshold, totalRcfAmount |-> total]

Rules(start, addBacks, exclusions, covenants, trigger) ==
  [ebitdaRules |-> [startingPoint |-> start, permittedAddBacks |-> addBacks,
                    exclusions |-> exclusions],
   financialCovenants |-> covenants,
   covenantTrigger |-> trigger]

ExclusionLists == {<<>>, <<"Pension items", "Unrealized exchange gains">>}

\* Ledgers and rules of the EBITDA bridge.
BridgeKinds ==
  {EntryKind("Revenue", 2, "Account"), EntryKind("OpEx", -1, "Account"),
   EntryKind("D&A", -1, "Account"), EntryKind("Restructuring", -1, "Account"),
   EntryKind("FX", 1, "Account")}

BridgeRules ==
  {AddBackRule("Depreciation and Amortization", ""),
   AddBackRule("Restructuring Costs", "50%"),
   AddBackRule("Unrealized FX losses", ""),
   AddBackRule("Pension items", "")}

\* Ledgers and rules of the percentage cap.
CapKinds ==
  {EntryKind("Revenue", 2, "Account"), EntryKind("OpEx", -1, "Account"),
   EntryKind("D&A", -1, "Account"), EntryKind("Restructuring", -1, "Account"),
   EntryKind("Transaction", -1, "Account")}

CapRules ==
  {AddBackRule("Depreciation and Amortization", ""),
   AddBackRule("Depreciation and Amortization", "50%"),
   AddBackRule("Restructuring Costs", "50%"),
   AddBackRule("Restructuring Costs", "Subject to cap"),
   AddBackRule("Restructuring Costs", "Not limited"),
   AddBackRule("Transaction Costs", "15% of EBITDA")}

\* Ledgers and rules of the repeated invocation.
TwiceKinds ==
  {EntryKind("Revenue", 2, "Account"), EntryKind("D&A", -1, "Account"),
   EntryKind("Restructuring", -1, "Account"), EntryKind("FX", 1, "Account")}

TwiceRules ==
  {AddBackRule("Depreciation and Amortization", ""),
   AddBackRule("Restructuring Costs", "50%"),
   AddBackRule("Unrealized FX losses", "")}

\* Ledgers and rules of the covenant test.
CovenantKinds ==
  {EntryKind("Revenue", 1, "Account"), EntryKind("OpEx", -1, "Account"),
   EntryKind("D&A", -1, "Account"),
   EntryKind("Gross Debt", 2, "Senior Secured Notes"),
   EntryKind("Gross Debt", 1, "Revolving Credit Facility (RCF) - Drawn"),
   EntryKind("Interest Expense", -1, "Account"),
   EntryKind("Cash", 1, "Account")}

CovenantLists ==
  {lev \o int :
     lev \in {<<>>, <<Covenant("Leverage Ratio", Some(1), Unset)>>,
              <<Covenant("Leverage Ratio", Some(2), Unset)>>},
     int \in {<<>>, <<Covenant("Interest Cover", Unset, Some(1))>>,
              <<Covenant("Interest Cover", Unset, Some(2))>>}}

Triggers ==
  {Unset} \cup
  {Some(Trigger(sp, total, thr)) :
     sp \in BOOLEAN, total \in {Unset, Some(2 * Hundred)}, thr \in {Unset, Some(50)}}

\* Ledgers and triggers of the springing test: two drawings of the facility
\* and capacities that are absent, zero, negative and positive.
TriggerKinds ==
  {EntryKind("Revenue", 1, "Account"),
   EntryKind("Gross Debt", 2, "Senior Secured Notes"),
   EntryKind("Gross Debt", 1, "Revolving Credit Facility (RCF) - Drawn"),
   EntryKind("Gross Debt", 2, "Revolving Credit Facility (RCF) - Drawn")}

TriggerSettings ==
  {Unset} \cup
  {Some(Trigger(sp, total, thr)) :
     sp \in BOOLEAN,
     total \in {Unset, Some(0), Some(-2 * Hundred), Some(2 * Hundred), Some(4 * Hundred)},
     thr \in {Unset, Some(0), Some(50)}}

\* Ledgers and covenants of the threshold defaults: covenants without a
\* limit, two covenants of one name, names in capitals.
DefaultsKinds ==
  {EntryKind("Revenue", 1, "Account"),
   EntryKind("Gross Debt", 5, "Senior Secured Notes"),
   EntryKind("Interest Expense", -1, "Account")}

DefaultsCovenants ==
  {Covenant("Leverage Ratio", Some(1), Unset),
   Covenant("Consolidated Net LEVERAGE", Some(2), Unset),
   Covenant("Leverage Ratio", Unset, Unset),
   Covenant("Interest Cover", Unset, Some(1)),
   Covenant("INTEREST Cover Ratio", Unset, Some(2)),
   Covenant("Interest Cover", Unset, Unset)}

DefaultsCovenantLists ==
  UNION {[1..m -> DefaultsCovenants] : m \in 0..MaxCovenants}

\* Ledgers and rules of the health subtotals.
SubtotalKinds ==
  {EntryKind("D&A", -1, "Account"), EntryKind("Restructuring", -1, "Account"),
   EntryKind("Transaction", -1, "Account"), EntryKind("FX", 1, "Account")}

SubtotalRules ==
  {AddBackRule("Depreciation and Amortization", ""),
   AddBackRule("Restructuring Costs", ""),
   AddBackRule("Transaction Costs", ""),
   AddBackRule("Depreciation and Amortization", "50%"),
   AddBackRule("Unrealized FX losses", "")}

\* Ledgers of the displayed totals: profits and losses, cash of either sign.
DisplayKinds ==
  {EntryKind("Revenue", 1, "Account"), EntryKind("OpEx", -2, "Account"),
   EntryKind("D&A", -1, "Account"), EntryKind("FX", 1, "Account"),
   EntryKind("Gross Debt", 2, "Senior Secured Notes"),
   EntryKind("Cash", 1, "Account"), EntryKind("Cash", -2, "Account")}

\* The ledger of the constants file.  Its amounts are whole multiples of
\* 100,000, and the ledger is held in that unit: 1,250,000,000 is 12500.
MockEntry(id, name, a, cat) ==
  [id |-> id, accountName |-> name, amount |-> a * Hundred, category |-> cat]

MOCK_SAP_DATA ==
  << MockEntry(101, "Total Revenue", 12500, "Revenue"),
     MockEntry(102, "Cost of Goods Sold", -7500, "OpEx"),
     MockEntry(103, "Operating Expenses (G&A)", -2000, "OpEx"),
     MockEntry(201, "Tangible Depreciation", -550, "D&A"),
     MockEntry(202, "Intangible Amortization", -120, "D&A"),
     MockEntry(203, "Impairment Charges", -30, "D&A"),
     MockEntry(301, "Restructuring - Redundancy UK", -85, "Restructuring"),
     MockEntry(302, "Office Closure - Italy", -20, "Restructuring"),
     MockEntry(401, "LMA Amendment 2025 Legal Fees", -15, "Transaction"),
     MockEntry(501, "Unrealized FX Gain", 42, "FX"),
     MockEntry(701, "Senior Secured Notes 2028 (Tranche 1)", 7500, "Gross Debt"),
     MockEntry(702, "Senior Secured Notes 2028 (Tranche 2)", 500, "Gross Debt"),
     MockEntry(703, "Facility B1 Drawing", 8800, "Gross Debt"),
     MockEntry(704, "Revolving Credit Facility (RCF) - Drawn", 950, "Gross Debt"),
     MockEntry(801, "IFRS 16 Lease Liabilities", 150, "Leases"),
     MockEntry(901, "Cash and Cash Equivalents", 1200, "Cash") >>

\* Rules run against the ledger of the constants file.
MockRules ==
  {AddBackRule("Depreciation and Amortization", ""),
   AddBackRule("Restructuring Costs", "15%"),
   AddBackRule("Transaction Costs", "")}

MockCovenantLists ==
  {<<>>, <<Covenant("Leverage Ratio", Some(4), Unset)>>,
   <<Covenant("Leverage Ratio", Some(5), Unset)>>}

\* Ledgers and rules of the classifier.
ClassifierKinds ==
  {EntryKind("Revenue", 2, "Account"), EntryKind("Transaction", -1, "Account"),
   EntryKind("Restructuring", -1, "Account")}

ClassifierRules ==
  {AddBackRule("Exceptional legal costs", ""),
   AddBackRule("Restructuring Costs", ""),
   AddBackRule("Transaction Costs", "")}

\* Ledgers and rules of the FX exclusion: gains and losses.
FXKinds ==
  {EntryKind("Revenue", 2, "Account"), EntryKind("D&A", -1, "Account"),
   EntryKind("FX", 1, "Account"), EntryKind("FX", -1, "Account"),
   EntryKind("FX", 2, "Account")}

FXRules ==
  {AddBackRule("Depreciation and Amortization", ""),
   AddBackRule("Unrealized FX losses", "")}

\* Ledgers and rules of the starting point: revenue and costs of either sign.
StartKinds ==
  {EntryKind("Revenue", 2, "Account"), EntryKind("Revenue", -1, "Account"),
   EntryKind("OpEx", -1, "Account"), EntryKind("OpEx", 1, "Account"),
   EntryKind("D&A", -1, "Account")}

StartRules ==
  {AddBackRule("Depreciation and Amortization", ""),
   AddBackRule("Pension items", "")}

StartingPoints == {"", "Consolidated Operating Profit"}

\* Ledgers of the finance charges and of the net debt.
AggregateKinds ==
  {EntryKind("Interest Expense", -1, "Account"),
   EntryKind("Interest Expense", 2, "Account"),
   EntryKind("Interest Income", 1, "Account"),
   EntryKind("Interest Income", -1, "Account"),
   EntryKind("Gross Debt", 2, "Senior Secured Notes"),
   EntryKind("Leases", 1, "Account"), EntryKind("Leases", -1, "Account"),
   EntryKind("Cash", 1, "Account"), EntryKind("Cash", -2, "Account")}

EmptyLocals ==
  [reconciliation |-> <<>>, usedSapIds |-> {}, operatingProfit |-> 0,
   runningEBITDA |-> 0, depreciationTotal |-> 0, restructuringTotal |-> 0,
   transactionTotal |-> 0, fxAdjustmentTotal |-> 0]

Idle ==
  /\ pc = "idle"
  /\ ruleIdx = 1
  /\ locals = EmptyLocals
  /\ result = Unset
  /\ prevResult = Unset
  /\ displayed = Unset

Init ==
  /\ sapData \in Ledgers(BridgeKinds)
  /\ \E ab \in AddBackLists(BridgeRules), ex \in ExclusionLists :
       rules = Rules("", ab, ex, <<>>, Unset)
  /\ Idle

InitCap ==
  /\ sapData \in Ledgers(CapKinds)
  /\ \E ab \in AddBackLists(CapRules) : rules = Rules("", ab, <<>>, <<>>, Unset)
  /\ Idle

InitTwice ==
  /\ sapData \in Ledgers(TwiceKinds)
  /\ \E ab \in AddBackLists(TwiceRules), ex \in ExclusionLists :
       rules = Rules("", ab, ex, <<>>, Unset)
  /\ Idle

InitCovenant ==
  /\ sapData \in Ledgers(CovenantKinds)
  /\ \E ab \in {<<>>, <<AddBackRule("Depreciation and Amortization", "")>>},
        cov \in CovenantLists, tr \in Triggers :
       rules = Rules("", ab, <<>>, cov, tr)
  /\ Idle

InitTrigger ==
  /\ sapData \in Ledgers(TriggerKinds)
  /\ \E ab \in {<<>>, <<AddBackRule("Depreciation and Amortization", "")>>},
        tr \in TriggerSettings :
       rules = Rules("", ab, <<>>, <<>>, tr)
  /\ Idle

InitDefaults ==
  /\ sapData \in Ledgers(DefaultsKinds)
  /\ \E ab \in {<<>>, <<AddBackRule("Depreciation and Amortization", "")>>},
        cov \in DefaultsCovenantLists :
       rules = Rules("", ab, <<>>, cov, Unset)
  /\ Idle

InitSubtotals ==
  /\ sapData \in Ledgers(SubtotalKinds)
  /\ \E ab \in AddBackLists(SubtotalRules), ex \in ExclusionLists :
       rules = Rules("", ab, ex, <<>>, Unset)
  /\ Idle

InitDisplay ==
  /\ sapData \in Ledgers(DisplayKinds)
  /\ \E ab \in {<<>>, <<AddBackRule("Depreciation and Amortization", "")>>},
        ex \in ExclusionLists :
       rules = Rules("", ab, ex, <<>>, Unset)
  /\ Idle

InitMock ==
  /\ sapData = MOCK_SAP_DATA
  /\ \E ab \in AddBackLists(MockRules), ex \in ExclusionLists,
        cov \in MockCovenantLists :
       rules = Rules("", ab, ex, cov, Unset)
  /\ Idle

InitClassifier ==
  /\ sapData \in Ledgers(ClassifierKinds)
  /\ \E ab \in AddBackLists(ClassifierRules) : rules = Rules("", ab, <<>>, <<>>, Unset)
  /\ Idle

InitFX ==
  /\ sapData \in Ledgers(FXKinds)
  /\ \E ab \in AddBackLists(FXRules), ex \in ExclusionLists :
       rules = Rules("", ab, ex, <<>>, Unset)
  /\ Idle

InitStart ==
  /\ sapData \in Ledgers(StartKinds)
  /\ \E start \in StartingPoints, ab \in AddBackLists(StartRules) :
       rules = Rules(start, ab, <<>>, <<>>, Unset)
  /\ Idle

InitAggregates ==
  /\ sapData \in Ledgers(AggregateKinds)
  /\ \E ab \in {<<>>, <<AddBackRule("Depreciation and Amortization", "")>>} :
       rules = Rules("", ab, <<>>, <<>>, Unset)
  /\ Idle

(***************************************************************************)
(* One invocation of runReconciliation, section by section.                *)
(***************************************************************************)
AddBacks == rules.ebitdaRules.permittedAddBacks

\* Mutant: the entries of the starting line are taken out of the caller's list.
InvokeConsuming ==
  /\ pc = "idle"
  /\ locals' = OperatingProfitStep(sapData, rules)
  /\ ruleIdx' = 1
  /\ pc' = "addbacks"
  /\ sapData' = SelectSeq(sapData, LAMBDA e : e.category \notin {"Revenue", "OpEx"})
  /\ UNCHANGED <<rules, result, prevResult, displayed>>

Invoke ==
  /\ pc = "idle"
  /\ locals' = OperatingProfitStep(sapData, rules)
  /\ ruleIdx' = 1
  /\ pc' = "addbacks"
  /\ UNCHANGED <<sapData, rules, result, prevResult, displayed>>

ProcessAddBack ==
  /\ pc = "addbacks"
  /\ ruleIdx <= Len(AddBacks)
  /\ locals' = AddBackStep(sapData, locals, AddBacks[RuleOrder(AddBacks)[ruleIdx]])
  /\ ruleIdx' = ruleIdx + 1
  /\ UNCHANGED <<sapData, rules, pc, result, prevResult, displayed>>

Finish ==
  /\ pc = "addbacks"
  /\ ruleIdx > Len(AddBacks)
  /\ locals' = AggregatesStep(sapData, ExclusionsStep(sapData, rules, locals))
  /\ result' = Some(EvaluateStep(sapData, rules, locals'))
  /\ pc' = "done"
  /\ UNCHANGED <<sapData, rules, ruleIdx, prevResult, displayed>>

\* A second call with the same arguments, after the first has returned.
Reinvoke ==
  /\ pc = "done"
  /\ prevResult' = result
  /\ result' = Unset
  /\ locals' = OperatingProfitStep(sapData, rules)
  /\ ruleIdx' = 1
  /\ pc' = "addbacks"
  /\ displayed' = Unset
  /\ UNCHANGED <<sapData, rules>>

\* DashboardView renders the two tables from the returned reconciliation.
Render ==
  /\ pc = "done"
  /\ displayed = Unset
  /\ displayed' =
       Some([adjustedEBITDA |-> TableTotal(SectionRows(result[1].reconciliation, "EBITDA")),
             netDebt |-> TableTotal(SectionRows(result[1].reconciliation, "NET_DEBT"))])
  /\ UNCHANGED <<sapData, rules, pc, ruleIdx, locals, result, prevResult>>

Next == Invoke \/ ProcessAddBack \/ Finish

NextDisplay == Invoke \/ ProcessAddBack \/ Finish \/ Render

NextTwice == Invoke \/ ProcessAddBack \/ Finish \/ Reinvoke

Spec == Init /\ [][Next]_vars

SpecCap == InitCap /\ [][Next]_vars

SpecTwice == InitTwice /\ [][NextTwice]_vars

SpecCovenant == InitCovenant /\ [][Next]_vars

SpecTrigger == InitTrigger /\ [][Next]_vars

SpecDefaults == InitDefaults /\ [][Next]_vars

SpecSubtotals == InitSubtotals /\ [][Next]_vars

SpecDisplay == InitDisplay /\ [][NextDisplay]_vars

SpecMock == InitMock /\ [][Next]_vars

SpecClassifier == InitClassifier /\ [][Next]_vars

SpecFX == InitFX /\ [][Next]_vars

SpecStart == InitStart /\ [][Next]_vars

SpecAggregates == InitAggregates /\ [][Next]_vars

(***************************************************************************)
(* Vocabulary of the properties.                                           *)
(***************************************************************************)
Done == pc = "done"
Out == result[1]
Lines == Out.reconciliation

\* Rule i has an entry of its classified categories that no earlier rule of
\* the list classifies to.
Fires(data, addBacks, i) ==
  \E k \in 1..Len(data) :
     /\ data[k].category \in mapRuleToSAPCategory(addBacks[i].item)
     /\ \A j \in 1..(i - 1) :
          data[k].category \notin mapRuleToSAPCategory(addBacks[j].item)

\* The indices of the firing rules, in list order.
RECURSIVE FiredFrom(_, _, _)
FiredFrom(data, addBacks, i) ==
  IF i > Len(addBacks) THEN <<>>
  ELSE (IF Fires(data, addBacks, i) THEN <<i>> ELSE <<>>)
       \o FiredFrom(data, addBacks, i + 1)

Fired == FiredFrom(sapData, AddBacks, 1)

IsFXLine(line) == line.lmaItem = <<"(-) Unrealized FX Gain">>

\* The list without its element i.
RemoveAt(s, i) == SubSeq(s, 1, i - 1) \o SubSeq(s, i + 1, Len(s))

WithAddBacks(rls, addBacks) ==
  [rls EXCEPT !.ebitdaRules.permittedAddBacks = addBacks]

WithExclusions(rls, exclusions) ==
  [rls EXCEPT !.ebitdaRules.exclusions = exclusions]

\* The sum of finalAmount over the lines 1..n that belong to the section.
RECURSIVE SectionTotal(_, _, _)
SectionTotal(lines, sect, n) ==
  IF n = 0 THEN 0
  ELSE (IF lines[n].section = sect THEN lines[n].finalAmount ELSE 0)
       + SectionTotal(lines, sect, n - 1)

\* The sum over the entries 1..n of the categories, signed or of absolute
\* values.
RECURSIVE LedgerTotal(_, _, _, _)
LedgerTotal(data, cats, absolute, n) ==
  IF n = 0 THEN 0
  ELSE (IF data[n].category \notin cats THEN 0
        ELSE IF absolute /\ data[n].amount < 0 THEN -data[n].amount
        ELSE data[n].amount)
       + LedgerTotal(data, cats, absolute, n - 1)

\* The ids of the entries of the categories.
LedgerIds(data, cats) ==
  {data[k].id : k \in {k \in 1..Len(data) : data[k].category \in cats}}

(***************************************************************************)
(* C1  Conservation: in the returned reconciliation no ledger entry is a   *)
(* source of two different lines (starting line, add-back lines, FX        *)
(* deduction line, finance-charge lines, net-debt lines).                  *)
(***************************************************************************)
C1_Conservation ==
  Done =>
    LET lines == Lines
    IN  \A a, b \in 1..Len(lines) :
          a # b => Ids(lines[a].sapSources) \cap Ids(lines[b].sapSources) = {}

\* Two rules of one category meet entries of it, and an FX rule has taken
\* the FX entries that the FX exclusion looks for.
C1_Witness ==
  /\ Done
  /\ HasFXExclusion(rules)
  /\ \E a \in 1..Len(Lines) :
        /\ Lines[a].isAddBack
        /\ \E k \in 1..Len(Lines[a].sapSources) : Lines[a].sapSources[k].category = "FX"
  /\ \E i, j \in 1..Len(AddBacks) :
        /\ i < j
        /\ Fires(sapData, AddBacks, i)
        /\ mapRuleToSAPCategory(AddBacks[i].item) = mapRuleToSAPCategory(AddBacks[j].item)

(***************************************************************************)
(* C2  Sign convention: every line with isAddBack has finalAmount >= 0 and *)
(* every line with isDeduction has finalAmount <= 0, for entries of any    *)
(* sign.                                                                   *)
(***************************************************************************)
C2_SignConvention ==
  Done =>
    \A a \in 1..Len(Lines) :
       /\ Lines[a].isAddBack => Lines[a].finalAmount >= 0
       /\ Lines[a].isDeduction => Lines[a].finalAmount <= 0

(***************************************************************************)
(* C3  Cap correctness: for a firing rule whose cap text contains '%' or   *)
(* 'cap', with maxAllowed = capBase * pct / 100: rawAmount > maxAllowed    *)
(* gives finalAmount = cappedAmount = maxAllowed and the reason 'Capped at *)
(* P% of Base'; rawAmount <= maxAllowed gives finalAmount = rawAmount, no  *)
(* cappedAmount and the reason 'Permitted (Within Cap)'.                   *)
(***************************************************************************)
\* The D&A raw amounts of the add-back lines 2..n of the output, where
\* line n belongs to rule fired[n - 1].
RECURSIVE DepreciationUpTo(_, _, _)
DepreciationUpTo(lines, fired, n) ==
  IF n < 2 THEN 0
  ELSE (IF "D&A" \in mapRuleToSAPCategory(AddBacks[fired[n - 1]].item)
        THEN lines[n].rawAmount ELSE 0)
       + DepreciationUpTo(lines, fired, n - 1)

\* 100 * maxAllowed of line n: capBase * pct.
C3_MaxAllowedTimes100(lines, fired, n) ==
  (Out.health.operatingProfit + DepreciationUpTo(lines, fired, n))
    * CapPercent(AddBacks[fired[n - 1]])

C3_CapCorrectness ==
  Done =>
    LET fired == Fired
        lines == Lines
    IN  \A n \in 2..(Len(fired) + 1) :
          LET rule == AddBacks[fired[n - 1]]
              line == lines[n]
              max100 == C3_MaxAllowedTimes100(lines, fired, n)
          IN  CapApplies(rule) =>
                IF line.rawAmount * 100 > max100
                THEN /\ line.finalAmount * 100 = max100
                     /\ line.cappedAmount = Some(line.finalAmount)
                     /\ line.adjustmentReason =
                          Some(<<"Capped at ", CapPercent(rule), "% of Base">>)
                ELSE /\ line.finalAmount = line.rawAmount
                     /\ line.cappedAmount = Unset
                     /\ line.adjustmentReason = Some(<<"Permitted (Within Cap)">>)

\* A capped rule fired with its raw amount exactly at the cap.
C3_Witness ==
  /\ Done
  /\ \E n \in 2..(Len(Fired) + 1) :
        /\ CapApplies(AddBacks[Fired[n - 1]])
        /\ Lines[n].rawAmount > 0
        /\ Lines[n].rawAmount * 100 = C3_MaxAllowedTimes100(Lines, Fired, n)

(***************************************************************************)
(* C4  Status ordering: with the test active and leverageRatio above       *)
(* leverageMax the status is Breach, whatever the interest cover is.       *)
(***************************************************************************)
C4_StatusOrdering ==
  Done =>
    LET h == Out.headroom
    IN  (h.testConditionActive /\ Above(h.leverageRatio, h.leverageThreshold, 1))
          => h.status = "Breach"

\* Leverage above max while interest cover is below min.
C4_Witness ==
  /\ Done
  /\ Out.headroom.testConditionActive
  /\ Above(Out.headroom.leverageRatio, Out.headroom.leverageThreshold, 1)
  /\ Out.headroom.interestThreshold > 0
  /\ Below(Out.headroom.interestCoverageRatio, Out.headroom.interestThreshold, 1)

(***************************************************************************)
(* C5  Springing skip: with isSpringing true and utilization <= threshold, *)
(* testConditionActive is false and status is Skipped, and the two ratios  *)
(* have the values they have with no trigger configured.                   *)
(***************************************************************************)
WithoutTrigger(rls) == [rls EXCEPT !.covenantTrigger = Unset]

C5_SpringingSkip ==
  Done =>
    LET h == Out.headroom
        t == h.triggerDetails
        plain == RunReconciliation(sapData, WithoutTrigger(rules)).headroom
    IN  (rules.covenantTrigger # Unset /\ rules.covenantTrigger[1].isSpringing)
          => /\ t # Unset
             /\ ~Above(t[1].currentValue, t[1].threshold, Hundred)
                  => /\ ~h.testConditionActive
                     /\ h.status = "Skipped"
                     /\ h.leverageRatio = plain.leverageRatio
                     /\ h.interestCoverageRatio = plain.interestCoverageRatio

\* Utilization equal to the threshold, with ratios that would breach.
C5_Witness ==
  /\ Done
  /\ rules.covenantTrigger # Unset
  /\ rules.covenantTrigger[1].isSpringing
  /\ Out.headroom.triggerDetails # Unset
  /\ Out.headroom.triggerDetails[1].currentValue.num > 0
  /\ Out.headroom.triggerDetails[1].currentValue.num * Hundred
       = Out.headroom.triggerDetails[1].threshold
           * Out.headroom.triggerDetails[1].currentValue.den
  /\ Above(Out.headroom.leverageRatio, Out.headroom.leverageThreshold, 1)
  /\ Out.headroom.status = "Skipped"

(***************************************************************************)
(* C6  Without a springing trigger (covenantTrigger absent, or isSpringing *)
(* false) testConditionActive is true, triggerDetails is absent and status *)
(* is not Skipped; and status is Skipped exactly when testConditionActive  *)
(* is false.                                                               *)
(***************************************************************************)
C6_AlwaysTested ==
  Done =>
    LET h == Out.headroom
    IN  /\ (rules.covenantTrigger = Unset \/ ~rules.covenantTrigger[1].isSpringing)
             => /\ h.testConditionActive
                /\ h.triggerDetails = Unset
                /\ h.status # "Skipped"
        /\ (h.status = "Skipped") <=> ~h.testConditionActive

\* A trigger that is configured but not springing, over a ledger with no
\* RCF drawing.
C6_Witness ==
  /\ Done
  /\ rules.covenantTrigger # Unset
  /\ ~rules.covenantTrigger[1].isSpringing
  /\ RcfDrawdown(sapData) = 0
  /\ Out.headroom.status = "Breach"

(***************************************************************************)
(* C7  Division-by-zero safety: adjustedEBITDA = 0 gives leverageRatio 0,  *)
(* netFinanceCharges = 0 gives interestCoverageRatio 0, and the result is  *)
(* complete with a status among Healthy, Warning, Breach, Skipped.         *)
(***************************************************************************)
IsZero(q) == q.num = 0 /\ q.den > 0

C7_DivisionByZero ==
  Done =>
    /\ Out.health.adjustedEBITDA = 0 => IsZero(Out.headroom.leverageRatio)
    /\ Out.health.netFinanceCharges = 0 => IsZero(Out.headroom.interestCoverageRatio)
    /\ Out.headroom.leverageRatio.den > 0
    /\ Out.headroom.interestCoverageRatio.den > 0
    /\ Out.headroom.status \in {"Healthy", "Warning", "Breach", "Skipped"}
    /\ Len(Out.reconciliation) >= 5

\* Zero EBITDA against a positive net debt, and zero finance charges
\* against a non-zero EBITDA.
C7_Witness ==
  /\ Done
  /\ Out.health.adjustedEBITDA = 0
  /\ Out.health.netDebt > 0
  /\ Out.health.netFinanceCharges # 0

(***************************************************************************)
(* C8  Idempotence: a second invocation on the same ledger and rules       *)
(* returns the same reconciliation lines, health and headroom as the first *)
(* one; what the first run consumed is available again to the second.      *)
(***************************************************************************)
C8_Idempotence == (Done /\ prevResult # Unset) => result = prevResult

\* The second run has returned, and both add-back rules and the FX
\* exclusion have consumed entries.
C8_Witness ==
  /\ Done
  /\ prevResult # Unset
  /\ Len(Fired) = 2
  /\ \E n \in 1..Len(Lines) : IsFXLine(Lines[n])

(***************************************************************************)
(* C9  Silent omission: an add-back rule whose name matches no keyword, or *)
(* whose categories have no unconsumed entry when its turn comes, emits no *)
(* line and leaves the running EBITDA, the subtotals and the consumed set  *)
(* as they are; the output is that of the run without the rule.            *)
(***************************************************************************)
LocalsBefore(i) ==
  AddBacksFrom(sapData, OperatingProfitStep(sapData, rules), SubSeq(AddBacks, 1, i - 1), 1)

NothingToConsume(i, before) ==
  \A k \in 1..Len(sapData) :
     sapData[k].category \in mapRuleToSAPCategory(AddBacks[i].item)
       => sapData[k].id \in before.usedSapIds

C9_SilentOmission ==
  Done =>
    \A i \in 1..Len(AddBacks) :
       LET before == LocalsBefore(i)
       IN  NothingToConsume(i, before) =>
             /\ AddBackStep(sapData, before, AddBacks[i]) = before
             /\ Out = RunReconciliation(sapData,
                                        WithAddBacks(rules, RemoveAt(AddBacks, i)))

\* A rule finds its category consumed by the rule before it.
C9_Witness ==
  /\ Done
  /\ Len(AddBacks) = 2
  /\ mapRuleToSAPCategory(AddBacks[2].item) # {}
  /\ Fires(sapData, AddBacks, 1)
  /\ NothingToConsume(2, LocalsBefore(2))
  /\ \E k \in 1..Len(sapData) :
        sapData[k].category \in mapRuleToSAPCategory(AddBacks[2].item)

(***************************************************************************)
(* C10  Rule order: the add-back lines follow the starting line in the     *)
(* order of their rules and precede the FX deduction line; a firing rule   *)
(* takes every entry of its category, and a later rule of the same         *)
(* category emits no line.                                                 *)
(***************************************************************************)
EntriesOfRule(i) ==
  {sapData[k].id : k \in {k \in 1..Len(sapData) :
      sapData[k].category \in mapRuleToSAPCategory(AddBacks[i].item)}}

C10_RuleOrder ==
  Done =>
    LET fired == Fired
        lines == Lines
    IN  /\ Len(lines) >= 1 + Len(fired)
        /\ ~lines[1].isAddBack
        /\ lines[1].lmaItem[1] = "A. "
        /\ \A n \in 1..Len(fired) :
              /\ lines[1 + n].isAddBack
              /\ lines[1 + n].lmaItem = <<"(+) ", AddBacks[fired[n]].item>>
              /\ Ids(lines[1 + n].sapSources) = EntriesOfRule(fired[n])
        /\ \A n \in (2 + Len(fired))..Len(lines) : ~lines[n].isAddBack
        /\ \A n \in 1..Len(lines) : IsFXLine(lines[n]) => n = 2 + Len(fired)

\* Two rules of different categories fire and the FX deduction follows.
C10_Witness ==
  /\ Done
  /\ Len(Fired) = 2
  /\ AddBacks[1].item # AddBacks[2].item
  /\ IsFXLine(Lines[4])

(***************************************************************************)
(* C11  The example scenario: on the ledger of the constants file, with    *)
(* the rules [D&A add-back, Restructuring add-back capped at '15%'], an FX *)
(* exclusion, a leverage maxLimit of 5, no interest covenant and no        *)
(* springing trigger, the run returns operatingProfit 300,000,000, an      *)
(* uncapped restructuring line of 10,500,000, adjustedEBITDA 376,300,000,  *)
(* netDebt 1,670,000,000 and the status Healthy (amounts below are in the  *)
(* ledger's unit of 100,000).                                              *)
(***************************************************************************)
ExampleRules ==
  Rules("",
        <<AddBackRule("Depreciation and Amortization", ""),
          AddBackRule("Restructuring Costs", "15%")>>,
        <<"Pension items", "Unrealized exchange gains">>,
        <<Covenant("Leverage Ratio", Some(5), Unset)>>,
        Unset)

C11_ExampleScenario ==
  (Done /\ sapData = MOCK_SAP_DATA /\ rules = ExampleRules) =>
    LET lines == Lines
        restructuring ==
          {n \in 1..Len(lines) : lines[n].lmaItem = <<"(+) ", "Restructuring Costs">>}
    IN  /\ Out.health.operatingProfit = 3000 * Hundred
        /\ Cardinality(restructuring) = 1
        /\ \A n \in restructuring :
              /\ lines[n].cappedAmount = Unset
              /\ lines[n].finalAmount = 105 * Hundred
        /\ Out.health.adjustedEBITDA = 3763 * Hundred
        /\ Out.health.netDebt = 16700 * Hundred
        /\ Out.headroom.status = "Healthy"

\* The example run has returned, with its FX deduction line.
C11_Witness ==
  /\ Done
  /\ sapData = MOCK_SAP_DATA
  /\ rules = ExampleRules
  /\ \E n \in 1..Len(Lines) : IsFXLine(Lines[n])

(***************************************************************************)
(* C12  The inputs are not mutated: no step of an invocation, nor a second *)
(* invocation, changes the caller's ledger list (length, order, fields of  *)
(* every entry) or the caller's rules; only the state local to the         *)
(* invocation changes.                                                     *)
(***************************************************************************)
C12_InputsNotMutated == [][sapData' = sapData /\ rules' = rules]_vars

\* A second invocation has returned after the first consumed entries.
C12_Witness ==
  /\ Done
  /\ prevResult # Unset
  /\ locals.usedSapIds # {}
  /\ \E n \in 1..Len(Lines) : Lines[n].isAddBack

(***************************************************************************)
(* C13  Classifier ties: a rule name with keywords of more than one family *)
(* classifies to the union of the matching categories, and so the          *)
(* add-back lines take every entry of every matching category.             *)
(***************************************************************************)
\* The categories of every keyword family that the name contains.
C13_MatchingFamilies(ruleName) ==
  (IF \E kw \in {"depreciation", "amortization", "impairment"} : Includes(ruleName, kw)
   THEN {"D&A"} ELSE {})
  \cup (IF \E kw \in {"transaction", "legal", "professional", "acquisition"} :
             Includes(ruleName, kw)
        THEN {"Transaction"} ELSE {})
  \cup (IF \E kw \in {"restructuring", "redundancy", "reorganization", "exceptional"} :
             Includes(ruleName, kw)
        THEN {"Restructuring"} ELSE {})
  \cup (IF \E kw \in {"fx", "exchange"} : Includes(ruleName, kw)
        THEN {"FX"} ELSE {})

C13_ClassifierUnion ==
  Done =>
    /\ \A i \in 1..Len(AddBacks) :
          mapRuleToSAPCategory(AddBacks[i].item) = C13_MatchingFamilies(AddBacks[i].item)
    /\ \A k \in 1..Len(sapData) :
          (\E i \in 1..Len(AddBacks) :
              sapData[k].category \in C13_MatchingFamilies(AddBacks[i].item))
          => \E n \in 1..Len(Lines) :
                Lines[n].isAddBack /\ sapData[k].id \in Ids(Lines[n].sapSources)

(***************************************************************************)
(* C14  Status resolution when active: the status is Healthy exactly when  *)
(* leverageRatio <= 0.9 * leverageMax and interestCoverageRatio >=         *)
(* 1.1 * interestMin; a Warning set by the leverage check                  *)
(* (0.9 * max < ratio <= max) stays Warning whenever the interest cover is *)
(* at least interestMin.                                                   *)
(***************************************************************************)
C14_StatusResolution ==
  Done =>
    LET h == Out.headroom
        leverageWarning ==
          /\ Above(h.leverageRatio, h.leverageThreshold * 9, 10)
          /\ ~Above(h.leverageRatio, h.leverageThreshold, 1)
    IN  h.testConditionActive =>
          /\ h.status = "Healthy" <=>
               /\ ~Above(h.leverageRatio, h.leverageThreshold * 9, 10)
               /\ ~Below(h.interestCoverageRatio, h.interestThreshold * 11, 10)
          /\ (leverageWarning /\ ~Below(h.interestCoverageRatio, h.interestThreshold, 1))
               => h.status = "Warning"

\* Leverage in its warning band and the interest cover between the minimum
\* and 1.1 times the minimum.
C14_Witness ==
  /\ Done
  /\ Out.headroom.testConditionActive
  /\ Above(Out.headroom.leverageRatio, Out.headroom.leverageThreshold * 9, 10)
  /\ ~Above(Out.headroom.leverageRatio, Out.headroom.leverageThreshold, 1)
  /\ Out.headroom.interestThreshold > 0
  /\ ~Below(Out.headroom.interestCoverageRatio, Out.headroom.interestThreshold, 1)
  /\ Below(Out.headroom.interestCoverageRatio, Out.headroom.interestThreshold * 11, 10)
  /\ Out.headroom.status = "Warning"

(***************************************************************************)
(* C15  Cap base: when a capped rule fires, its cap is measured on         *)
(* operatingProfit plus the D&A add-back total of the rules processed so   *)
(* far in the pass.  The final amounts of earlier Restructuring or         *)
(* Transaction add-backs are not part of it, and the rules after it        *)
(* contribute nothing: the line is the one the rule gets when the list     *)
(* stops at it.                                                            *)
(***************************************************************************)
C15_CapBase ==
  Done =>
    LET fired == Fired
        lines == Lines
    IN  \A n \in 2..(Len(fired) + 1) :
          LET rule == AddBacks[fired[n - 1]]
              line == lines[n]
              capBase == Out.health.operatingProfit + DepreciationUpTo(lines, fired, n)
              stopped ==
                RunReconciliation(sapData,
                   WithAddBacks(rules, SubSeq(AddBacks, 1, fired[n - 1])))
          IN  CapApplies(rule) =>
                /\ line.finalAmount * 100 =
                     IF line.rawAmount * 100 > capBase * CapPercent(rule)
                     THEN capBase * CapPercent(rule)
                     ELSE line.rawAmount * 100
                /\ stopped.reconciliation[n] = line

\* A capped rule ahead of a firing D&A rule gets less than it would get
\* behind it.
C15_Witness ==
  /\ Done
  /\ Len(AddBacks) = 2
  /\ Fired = <<1, 2>>
  /\ CapApplies(AddBacks[1])
  /\ "D&A" \in mapRuleToSAPCategory(AddBacks[2].item)
  /\ "D&A" \notin mapRuleToSAPCategory(AddBacks[1].item)
  /\ Lines[2].finalAmount <
       RunReconciliation(sapData, WithAddBacks(rules, <<AddBacks[2], AddBacks[1]>>))
         .reconciliation[3].finalAmount

(***************************************************************************)
(* C16  Restructuring subtotal: health.restructuringCosts is the sum of    *)
(* finalAmount over the add-back lines whose rule classifies as            *)
(* Restructuring, capped or not, and nothing else: a rule of another       *)
(* classification never changes it, even when it carries a cap.            *)
(***************************************************************************)
\* The final amounts of the Restructuring lines among the add-back lines
\* 2..n of the output, where line n belongs to rule fired[n - 1].
RECURSIVE C16_RestructuringUpTo(_, _, _)
C16_RestructuringUpTo(lines, fired, n) ==
  IF n < 2 THEN 0
  ELSE (IF "Restructuring" \in mapRuleToSAPCategory(AddBacks[fired[n - 1]].item)
        THEN lines[n].finalAmount ELSE 0)
       + C16_RestructuringUpTo(lines, fired, n - 1)

C16_RestructuringSubtotal ==
  Done =>
    LET fired == Fired
    IN  Out.health.restructuringCosts =
          C16_RestructuringUpTo(Lines, fired, Len(fired) + 1)

(***************************************************************************)
(* C17  FX exclusion asymmetry: with 'fx' or 'exchange' text among the     *)
(* exclusions and netFX the signed sum of the unconsumed FX entries, a     *)
(* netFX > 0 gives exactly one deduction line with finalAmount = -netFX,   *)
(* an adjustedEBITDA lower by netFX and health.unrealizedFX = netFX; a     *)
(* netFX <= 0 gives no line, the same adjustedEBITDA and unrealizedFX = 0. *)
(* Without the text the FX step does nothing.                              *)
(***************************************************************************)
\* The first FX rule of the list consumes every FX entry; without one they
\* are all unconsumed at the FX step.
C17_NetFX ==
  IF \E i \in 1..Len(AddBacks) : "FX" \in mapRuleToSAPCategory(AddBacks[i].item)
  THEN 0
  ELSE LedgerTotal(sapData, {"FX"}, FALSE, Len(sapData))

C17_HasFXText ==
  \E k \in 1..Len(rules.ebitdaRules.exclusions) :
     \E kw \in {"fx", "exchange"} : Includes(rules.ebitdaRules.exclusions[k], kw)

C17_FXAsymmetry ==
  Done =>
    LET lines == Lines
        netFX == C17_NetFX
        fxLines == {n \in 1..Len(lines) : IsFXLine(lines[n])}
        before == RunReconciliation(sapData, WithExclusions(rules, <<>>))
                    .health.adjustedEBITDA
    IN  IF C17_HasFXText /\ netFX > 0
        THEN /\ Cardinality(fxLines) = 1
             /\ \A n \in fxLines :
                   /\ lines[n].isDeduction
                   /\ lines[n].finalAmount = -netFX
                   /\ Ids(lines[n].sapSources) = LedgerIds(sapData, {"FX"})
             /\ Out.health.adjustedEBITDA = before - netFX
             /\ Out.health.unrealizedFX = netFX
        ELSE /\ fxLines = {}
             /\ Out.health.adjustedEBITDA = before
             /\ Out.health.unrealizedFX = 0

\* Unconsumed FX entries that net to a loss, under an FX exclusion.
C17_Witness ==
  /\ Done
  /\ C17_HasFXText
  /\ C17_NetFX < 0
  /\ \E k, m \in 1..Len(sapData) :
        /\ sapData[k].category = "FX" /\ sapData[k].amount > 0
        /\ sapData[m].category = "FX" /\ sapData[m].amount < 0

(***************************************************************************)
(* C18  Bridge total: health.adjustedEBITDA is operatingProfit plus the    *)
(* finalAmount of every add-back line minus the FX deduction, and it is    *)
(* the sum of finalAmount over the output lines of the section EBITDA.     *)
(***************************************************************************)
RECURSIVE C18_AddBackTotal(_, _)
C18_AddBackTotal(lines, n) ==
  IF n = 0 THEN 0
  ELSE (IF lines[n].isAddBack THEN lines[n].finalAmount ELSE 0)
       + C18_AddBackTotal(lines, n - 1)

C18_BridgeTotal ==
  Done =>
    LET lines == Lines
    IN  /\ Out.health.adjustedEBITDA =
             Out.health.operatingProfit + C18_AddBackTotal(lines, Len(lines))
               - Out.health.unrealizedFX
        /\ Out.health.adjustedEBITDA = SectionTotal(lines, "EBITDA", Len(lines))

\* A capped add-back line and the FX deduction are both in the bridge.
C18_Witness ==
  /\ Done
  /\ \E n \in 1..Len(Lines) :
        Lines[n].isAddBack /\ Lines[n].finalAmount < Lines[n].rawAmount
  /\ \E n \in 1..Len(Lines) : IsFXLine(Lines[n])

(***************************************************************************)
(* C19  Operating profit start line: operatingProfit is the signed sum of  *)
(* the Revenue amounts minus the sum of the absolute OpEx amounts; it is   *)
(* the first line, with rawAmount = finalAmount = operatingProfit, all     *)
(* Revenue and OpEx entries as sources and the label of                    *)
(* ebitdaRules.startingPoint, or 'Operating Profit' when there is none;    *)
(* no later line lists a Revenue or OpEx entry.                            *)
(***************************************************************************)
C19_StartLine ==
  Done =>
    LET lines == Lines
        operatingProfit ==
          LedgerTotal(sapData, {"Revenue"}, FALSE, Len(sapData))
            - LedgerTotal(sapData, {"OpEx"}, TRUE, Len(sapData))
        label == IF rules.ebitdaRules.startingPoint = "" THEN "Operating Profit"
                 ELSE rules.ebitdaRules.startingPoint
    IN  /\ Out.health.operatingProfit = operatingProfit
        /\ lines[1].lmaItem = <<"A. ", label>>
        /\ lines[1].rawAmount = operatingProfit
        /\ lines[1].finalAmount = operatingProfit
        /\ Ids(lines[1].sapSources) = LedgerIds(sapData, {"Revenue", "OpEx"})
        /\ Len(lines[1].sapSources) = Cardinality(LedgerIds(sapData, {"Revenue", "OpEx"}))
        /\ \A n \in 2..Len(lines) :
              Ids(lines[n].sapSources) \cap LedgerIds(sapData, {"Revenue", "OpEx"}) = {}

\* A named starting point, a negative revenue entry, a positive cost entry
\* and an add-back line after the start line.
C19_Witness ==
  /\ Done
  /\ rules.ebitdaRules.startingPoint # ""
  /\ \E k \in 1..Len(sapData) : sapData[k].category = "Revenue" /\ sapData[k].amount < 0
  /\ \E k \in 1..Len(sapData) : sapData[k].category = "OpEx" /\ sapData[k].amount > 0
  /\ Lines[2].isAddBack

(***************************************************************************)
(* C20  Finance charges and net debt: netFinanceCharges is the sum of      *)
(* |amount| over Interest Expense minus the sum of |amount| over Interest  *)
(* Income; netDebt is the signed sum over Gross Debt and Leases minus the  *)
(* signed sum over Cash; the lines Finance Costs, Finance Income (a        *)
(* deduction), Gross Borrowings and Cash (a deduction) are in every        *)
(* output, also with empty sources, and each aggregate is the sum of       *)
(* finalAmount over the lines of its section.                              *)
(***************************************************************************)
C20_LinesOf(lines, item) == {n \in 1..Len(lines) : lines[n].lmaItem = <<item>>}

C20_Aggregation ==
  Done =>
    LET lines == Lines
        n == Len(sapData)
        netFinanceCharges ==
          LedgerTotal(sapData, {"Interest Expense"}, TRUE, n)
            - LedgerTotal(sapData, {"Interest Income"}, TRUE, n)
        netDebt ==
          LedgerTotal(sapData, {"Gross Debt", "Leases"}, FALSE, n)
            - LedgerTotal(sapData, {"Cash"}, FALSE, n)
    IN  /\ Out.health.netFinanceCharges = netFinanceCharges
        /\ Out.health.netDebt = netDebt
        /\ \A item \in {"B. Finance Costs", "(-) Finance Income",
                        "A. Gross Borrowings", "(-) Cash & Cash Equivalents"} :
              Cardinality(C20_LinesOf(lines, item)) = 1
        /\ \A k \in C20_LinesOf(lines, "B. Finance Costs") :
              /\ ~lines[k].isDeduction /\ lines[k].section = "FINANCE_CHARGES"
              /\ Ids(lines[k].sapSources) = LedgerIds(sapData, {"Interest Expense"})
        /\ \A k \in C20_LinesOf(lines, "(-) Finance Income") :
              /\ lines[k].isDeduction /\ lines[k].section = "FINANCE_CHARGES"
              /\ Ids(lines[k].sapSources) = LedgerIds(sapData, {"Interest Income"})
        /\ \A k \in C20_LinesOf(lines, "A. Gross Borrowings") :
              /\ ~lines[k].isDeduction /\ lines[k].section = "NET_DEBT"
              /\ Ids(lines[k].sapSources) = LedgerIds(sapData, {"Gross Debt", "Leases"})
        /\ \A k \in C20_LinesOf(lines, "(-) Cash & Cash Equivalents") :
              /\ lines[k].isDeduction /\ lines[k].section = "NET_DEBT"
              /\ Ids(lines[k].sapSources) = LedgerIds(sapData, {"Cash"})
        /\ SectionTotal(lines, "FINANCE_CHARGES", Len(lines)) = netFinanceCharges
        /\ SectionTotal(lines, "NET_DEBT", Len(lines)) = netDebt

\* Finance lines without sources next to a debt line fed by a lease and
\* a cash line, and a run whose interest income is booked negative.
C20_Witness ==
  /\ Done
  /\ \E k \in 1..Len(sapData) : sapData[k].category = "Leases"
  /\ \E k \in 1..Len(sapData) : sapData[k].category = "Cash"
  /\ \E k \in 1..Len(sapData) :
        sapData[k].category = "Interest Income" /\ sapData[k].amount < 0
  /\ \E k \in C20_LinesOf(Lines, "B. Finance Costs") : Lines[k].sapSources = <<>>

(***************************************************************************)
(* C21  Springing trigger evaluation: with isSpringing true, utilization   *)
(* is the amount of the first Gross Debt entry whose name contains 'rcf'   *)
(* or 'revolving' (0 if none) over totalRcfAmount, and 0 when              *)
(* totalRcfAmount is missing or <= 0; the threshold is thresholdPercentage *)
(* or 0.40; testConditionActive is true exactly when utilization is        *)
(* strictly above the threshold, and otherwise the status is Skipped;      *)
(* triggerDetails reports that utilization, threshold and capacity.        *)
(***************************************************************************)
C21_RcfEntries ==
  {k \in 1..Len(sapData) :
     /\ sapData[k].category = "Gross Debt"
     /\ \E kw \in {"rcf", "revolving"} : Includes(sapData[k].accountName, kw)}

C21_Drawdown ==
  IF C21_RcfEntries = {} THEN 0
  ELSE sapData[CHOOSE k \in C21_RcfEntries : \A j \in C21_RcfEntries : k <= j].amount

\* A number that is absent or 0 gives way to the default.
C21_OrElse(opt, d) == IF opt \in {Unset, Some(0)} THEN d ELSE opt[1]

C21_SpringingEvaluation ==
  (Done /\ rules.covenantTrigger # Unset) =>
    LET trigger == rules.covenantTrigger[1]
        h == Out.headroom
        capacity == C21_OrElse(trigger.totalRcfAmount, 0)
        threshold == C21_OrElse(trigger.thresholdPercentage, 40)
        drawdown == C21_Drawdown
        active == capacity > 0 /\ drawdown * 100 > threshold * capacity
    IN  trigger.isSpringing =>
          /\ h.testConditionActive = active
          /\ ~active => h.status = "Skipped"
          /\ h.triggerDetails # Unset
          /\ LET details == h.triggerDetails[1]
             IN  /\ details.threshold = threshold
                 /\ details.capacity = capacity
                 /\ IF capacity > 0
                    THEN details.currentValue.num * capacity
                           = drawdown * details.currentValue.den
                    ELSE details.currentValue.num = 0

\* Two drawings of different amounts, the first of them exactly at the
\* threshold: the test is skipped.
C21_Witness ==
  /\ Done
  /\ rules.covenantTrigger # Unset
  /\ rules.covenantTrigger[1].isSpringing
  /\ Cardinality(C21_RcfEntries) = 2
  /\ \E k \in C21_RcfEntries : sapData[k].amount # C21_Drawdown
  /\ rules.covenantTrigger[1].totalRcfAmount = Some(2 * Hundred)
  /\ rules.covenantTrigger[1].thresholdPercentage = Some(50)
  /\ C21_Drawdown = Hundred
  /\ Out.headroom.status = "Skipped"

(***************************************************************************)
(* C22  Threshold defaults: leverageThreshold is the maxLimit of the first *)
(* covenant whose name contains 'leverage' in any case, interestThreshold  *)
(* the minLimit of the first whose name contains 'interest'; without such  *)
(* a covenant, or without its limit, they are 4 and 0, and the status is   *)
(* computed against them.                                                  *)
(***************************************************************************)
C22_Named(kw) ==
  {k \in 1..Len(rules.financialCovenants) : Includes(rules.financialCovenants[k].name, kw)}

C22_First(kw) == CHOOSE k \in C22_Named(kw) : \A j \in C22_Named(kw) : k <= j

C22_LeverageThreshold ==
  IF C22_Named("leverage") = {} THEN 4
  ELSE IF rules.financialCovenants[C22_First("leverage")].maxLimit = Unset THEN 4
  ELSE rules.financialCovenants[C22_First("leverage")].maxLimit[1]

C22_InterestThreshold ==
  IF C22_Named("interest") = {} THEN 0
  ELSE IF rules.financialCovenants[C22_First("interest")].minLimit = Unset THEN 0
  ELSE rules.financialCovenants[C22_First("interest")].minLimit[1]

C23_TakesCapBranch(rule) ==
  rule.cap # "" /\ (CapHasPercentSign(rule.cap) \/ CapHasCapWord(rule.cap))

C23_UnparseableCap ==
  Done =>
    LET fired == Fired
        lines == Lines
    IN  \A n \in 2..(Len(fired) + 1) :
          LET rule == AddBacks[fired[n - 1]]
              line == lines[n]
              max100 ==
                (Out.health.operatingProfit + DepreciationUpTo(lines, fired, n)) * 20
          IN  /\ (C23_TakesCapBranch(rule) /\ CapPercentMatch(rule.cap) = Unset) =>
                   IF line.rawAmount * 100 > max100
                   THEN /\ line.finalAmount * 100 = max100
                        /\ line.cappedAmount = Some(line.finalAmount)
                        /\ line.adjustmentReason = Some(<<"Capped at ", 20, "% of Base">>)
                   ELSE /\ line.finalAmount = line.rawAmount
                        /\ line.cappedAmount = Unset
                        /\ line.adjustmentReason = Some(<<"Permitted (Within Cap)">>)
              /\ ~C23_TakesCapBranch(rule) =>
                   /\ line.finalAmount = line.rawAmount
                   /\ line.cappedAmount = Unset
                   /\ line.adjustmentReason = Some(<<rule.legalLogic>>)

\* A rule with the cap 'Subject to cap' is cut to a positive 20 percent of
\* its base.
C23_Witness ==
  /\ Done
  /\ \E n \in 2..(Len(Fired) + 1) :
        /\ AddBacks[Fired[n - 1]].cap = "Subject to cap"
        /\ Lines[n].cappedAmount # Unset
        /\ Lines[n].finalAmount > 0
        /\ Lines[n].finalAmount < Lines[n].rawAmount

(***************************************************************************)
(* C24  The status is the more severe of two signals: with the test        *)
(* active, L is Breach if leverageRatio > leverageMax, Warning if          *)
(* leverageRatio > 0.9 * leverageMax, else Healthy; I is Breach if         *)
(* interestCoverageRatio < interestMin, Warning if it is below             *)
(* 1.1 * interestMin, else Healthy; status = max(L, I) under               *)
(* Healthy < Warning < Breach.                                             *)
(***************************************************************************)
C24_Severity(status) ==
  CASE status = "Healthy" -> 0 [] status = "Warning" -> 1 [] status = "Breach" -> 2

C24_LeverageSignal ==
  IF Above(Out.headroom.leverageRatio, Out.headroom.leverageThreshold, 1) THEN "Breach"
  ELSE IF Above(Out.headroom.leverageRatio, Out.headroom.leverageThreshold * 9, 10)
    THEN "Warning"
  ELSE "Healthy"

C24_InterestSignal ==
  IF Below(Out.headroom.interestCoverageRatio, Out.headroom.interestThreshold, 1)
    THEN "Breach"
  ELSE IF Below(Out.headroom.interestCoverageRatio,
                Out.headroom.interestThreshold * 11, 10)
    THEN "Warning"
  ELSE "Healthy"

C24_MoreSevereSignal ==
  (Done /\ Out.headroom.testConditionActive) =>
    LET l == C24_LeverageSignal
        i == C24_InterestSignal
    IN  Out.headroom.status =
          IF C24_Severity(l) >= C24_Severity(i) THEN l ELSE i

\* A leverage Warning meets an interest cover below the minimum: Breach.
C24_Witness ==
  /\ Done
  /\ Out.headroom.testConditionActive
  /\ C24_LeverageSignal = "Warning"
  /\ C24_InterestSignal = "Breach"
  /\ Out.headroom.status = "Breach"

(***************************************************************************)
(* C25  Headroom and status agree: leverageHeadroom = leverageThreshold -  *)
(* leverageRatio and interestHeadroom = interestCoverageRatio -            *)
(* interestThreshold in every output, and with the test active the status  *)
(* is Breach if and only if one of the two is negative.                    *)
(***************************************************************************)
C25_HeadroomAgrees ==
  Done =>
    LET h == Out.headroom
    IN  /\ h.leverageHeadroom.num * h.leverageRatio.den =
             (h.leverageThreshold * h.leverageRatio.den - h.leverageRatio.num)
               * h.leverageHeadroom.den
        /\ h.interestHeadroom.num * h.interestCoverageRatio.den =
             (h.interestCoverageRatio.num
                - h.interestThreshold * h.interestCoverageRatio.den)
               * h.interestHeadroom.den
        /\ h.testConditionActive =>
             (h.status = "Breach" <=>
                (h.leverageHeadroom.num < 0 \/ h.interestHeadroom.num < 0))

\* The leverage has room and the interest cover has none: Breach.
C25_Witness ==
  /\ Done
  /\ Out.headroom.testConditionActive
  /\ Out.headroom.leverageHeadroom.num > 0
  /\ Out.headroom.interestHeadroom.num < 0
  /\ Out.headroom.status = "Breach"

(***************************************************************************)
(* C26  Zero finance charges against an interest covenant: with the test   *)
(* active, netFinanceCharges = 0 and an interest minLimit > 0, the         *)
(* interestCoverageRatio is 0 and the status is Breach, whatever           *)
(* adjustedEBITDA and netDebt are.                                         *)
(***************************************************************************)
C26_ZeroFinanceCharges ==
  Done =>
    LET h == Out.headroom
    IN  (/\ h.testConditionActive
         /\ Out.health.netFinanceCharges = 0
         /\ h.interestThreshold > 0)
        => /\ h.interestCoverageRatio.num = 0
           /\ h.status = "Breach"

\* A profitable, debt-free ledger without interest entries breaches the
\* interest covenant.
C26_Witness ==
  /\ Done
  /\ Out.headroom.testConditionActive
  /\ \A k \in 1..Len(sapData) : sapData[k].category # "Interest Expense"
  /\ Out.headroom.interestThreshold > 0
  /\ Out.health.adjustedEBITDA > 0
  /\ Out.health.netDebt <= 0
  /\ Out.headroom.status = "Breach"

(***************************************************************************)
(* C27  A non-positive EBITDA passes the leverage test: with the test      *)
(* active, leverageMax > 0, no interest covenant (interestMin = 0),        *)
(* netFinanceCharges = 0, adjustedEBITDA <= 0 and netDebt >= 0, the status *)
(* is Healthy, however large netDebt is.                                   *)
(***************************************************************************)
C27_NonPositiveEBITDA ==
  Done =>
    LET h == Out.headroom
    IN  (/\ h.testConditionActive
         /\ h.leverageThreshold > 0
         /\ h.interestThreshold = 0
         /\ Out.health.netFinanceCharges = 0
         /\ Out.health.adjustedEBITDA <= 0
         /\ Out.health.netDebt >= 0)
        => h.status = "Healthy"

\* A loss with debt above the leverage limit times its magnitude.
C27_Witness ==
  /\ Done
  /\ Out.headroom.testConditionActive
  /\ Out.headroom.interestThreshold = 0
  /\ Out.health.netFinanceCharges = 0
  /\ Out.health.adjustedEBITDA < 0
  /\ Out.health.netDebt > -Out.health.adjustedEBITDA * Out.headroom.leverageThreshold
  /\ Out.headroom.status = "Healthy"

(***************************************************************************)
(* C28  The health subtotals reconcile to the bridge: in a run where no    *)
(* add-back rule takes the cap branch and no add-back rule classifies as   *)
(* FX, adjustedEBITDA = operatingProfit + depreciation + restructuringCosts *)
(* + transactionCosts - unrealizedFX.                                      *)
(***************************************************************************)
C28_SubtotalsReconcile ==
  Done =>
    LET fired == Fired
        health == Out.health
    IN  (/\ \A n \in 1..Len(fired) : ~C23_TakesCapBranch(AddBacks[fired[n]])
         /\ \A i \in 1..Len(AddBacks) : "FX" \notin mapRuleToSAPCategory(AddBacks[i].item))
        => health.adjustedEBITDA =
             health.operatingProfit + health.depreciation + health.restructuringCosts
               + health.transactionCosts - health.unrealizedFX

\* Two uncapped rules of different subtotals fire and an FX gain is
\* deducted.
C28_Witness ==
  /\ Done
  /\ Len(Fired) = 2
  /\ \A n \in 1..2 : ~C23_TakesCapBranch(AddBacks[Fired[n]])
  /\ Out.health.restructuringCosts > 0
  /\ Out.health.depreciation + Out.health.transactionCosts > 0
  /\ Out.health.unrealizedFX > 0

(***************************************************************************)
(* C29  Displayed totals equal engine totals: the total row that           *)
(* ReconciliationTable computes over the lines of the section EBITDA       *)
(* ('Adjusted EBITDA') equals health.adjustedEBITDA, and the total row     *)
(* over the lines of the section NET_DEBT ('Total Net Debt') equals        *)
(* health.netDebt, for every engine output.                                *)
(***************************************************************************)
C29_DisplayedTotals ==
  displayed # Unset =>
    /\ displayed[1].adjustedEBITDA = Out.health.adjustedEBITDA
    /\ displayed[1].netDebt = Out.health.netDebt

(***************************************************************************)
(* C30  Self-inclusion in the cap base: a capped rule that itself          *)
(* classifies as D&A has its own rawAmount added to the D&A total before   *)
(* capBase is computed, so capBase = operatingProfit + D&A of the earlier  *)
(* rules + its own rawAmount; health.depreciation and                      *)
(* health.transactionCosts accumulate the rawAmount of their lines, not    *)
(* the capped finalAmount.                                                 *)
(***************************************************************************)
\* The raw amounts of the lines 2..n whose rule classifies to the category.
RECURSIVE C30_RawUpTo(_, _, _, _)
C30_RawUpTo(lines, fired, category, n) ==
  IF n < 2 THEN 0
  ELSE (IF category \in mapRuleToSAPCategory(AddBacks[fired[n - 1]].item)
        THEN lines[n].rawAmount ELSE 0)
       + C30_RawUpTo(lines, fired, category, n - 1)

C30_SelfInclusion ==
  Done =>
    LET fired == Fired
        lines == Lines
        last == Len(fired) + 1
    IN  /\ \A n \in 2..last :
              LET rule == AddBacks[fired[n - 1]]
                  capBase ==
                    Out.health.operatingProfit
                      + C30_RawUpTo(lines, fired, "D&A", n - 1) + lines[n].rawAmount
              IN  (C23_TakesCapBranch(rule) /\ "D&A" \in mapRuleToSAPCategory(rule.item))
                  => lines[n].finalAmount * 100 =
                       IF lines[n].rawAmount * 100 > capBase * CapPercent(rule)
                       THEN capBase * CapPercent(rule)
                       ELSE lines[n].rawAmount * 100
        /\ Out.health.depreciation = C30_RawUpTo(lines, fired, "D&A", last)
        /\ Out.health.transactionCosts = C30_RawUpTo(lines, fired, "Transaction", last)

\* A capped D&A rule is cut to a positive amount that comes from its own
\* raw amount alone, and the subtotal keeps the raw amount.
C30_Witness ==
  /\ Done
  /\ Out.health.operatingProfit = 0
  /\ Len(Fired) = 1
  /\ C23_TakesCapBranch(AddBacks[Fired[1]])
  /\ "D&A" \in mapRuleToSAPCategory(AddBacks[Fired[1]].item)
  /\ Lines[2].finalAmount > 0
  /\ Lines[2].finalAmount < Lines[2].rawAmount
  /\ Out.health.depreciation = Lines[2].rawAmount

====
